---- MODULE Spec2Model ----
(***************************************************************************)
(* The info-agent MCP server of src/server_v2.py: the tool registry kept   *)
(* by MCPServer.tool, the POST /mcp dispatcher _handle_mcp_request, the    *)
(* GET /health and GET /tools routes, and the six module-level tool        *)
(* registrations.                                                          *)
(*                                                                         *)
(* Python values are records tagged by their type (field t); a key that a  *)
(* dict does not hold is the marker Absent.  The values carried by         *)
(* arguments are not modelled: a call is decided by the key set alone.     *)
(***************************************************************************)
EXTENDS Integers, Sequences, FiniteSets, TLC

(* ------------------------------ bounds -------------------------------- *)

\* request ids 1..MaxId are offered next to an absent id
MaxId == 2
\* number of MCPServer.tool calls explored during startup in SpecRegistry
MaxRegs == 3
\* number of request threads of the threaded HTTP server
NumThreads == 2

(* --------------------------- Python values ---------------------------- *)

Absent == [t |-> "absent"]
PyNone == [t |-> "NoneType"]
PyStr(s) == [t |-> "str", s |-> s]
PyInt(i) == [t |-> "int", i |-> i]
\* a JSON array of n elements
PyList(n) == [t |-> "list", n |-> n]
\* the arguments mapping, by its key set
PyKwargs(keys) == [t |-> "dict", keys |-> keys]
\* the params object
PyParams(name, arguments) == [t |-> "dict", name |-> name, arguments |-> arguments]
\* the request object
PyRequest(jsonrpc, id, method, params) ==
    [t |-> "dict", jsonrpc |-> jsonrpc, id |-> id, method |-> method, params |-> params]

\* Python truthiness, as `not data` evaluates it
Truthy(v) ==
    CASE v.t = "NoneType" -> FALSE
      [] v.t = "list" -> v.n > 0
      [] v.t = "str" -> v.s # ""
      [] v.t = "int" -> v.i # 0
      [] v.t = "dict" /\ "keys" \in DOMAIN v -> v.keys # {}
      [] v.t = "dict" /\ "name" \in DOMAIN v ->
            v.name # Absent \/ v.arguments # Absent
      [] v.t = "dict" ->
            v.jsonrpc # Absent \/ v.id # Absent \/ v.method # Absent \/ v.params # Absent
      [] OTHER -> FALSE

\* dict.get(key, default) on a dict record
Get(d, key, default) == IF d[key] = Absent THEN default ELSE d[key]

\* whether `in self.tools` can hash the value
Hashable(v) == v.t \notin {"list", "dict"}

\* str(v), as an f-string renders it
Format(v) ==
    CASE v.t = "NoneType" -> "None"
      [] v.t = "str" -> v.s
      [] v.t = "int" -> ToString(v.i)
      [] v.t = "list" -> "[...]"
      [] OTHER -> "{...}"

(* -------------------- the module-level registrations ------------------ *)

\* faulty variant: every parameter of every handler has a default value
SignatureAllOptional(func) ==
    CASE func = "get_weather_forecast" ->
            [params |-> <<"city", "country", "days">>,
             defaults |-> {"city", "country", "days"}]
      [] func = "get_news" ->
            [params |-> <<"query", "language", "max_results">>,
             defaults |-> {"query", "language", "max_results"}]
      [] func = "search_web" ->
            [params |-> <<"query", "count">>, defaults |-> {"query", "count"}]
      [] func = "convert_currency" ->
            [params |-> <<"amount", "from_currency", "to_currency">>,
             defaults |-> {"amount", "from_currency", "to_currency"}]
      [] func = "calculate" ->
            [params |-> <<"expression">>, defaults |-> {"expression"}]
      [] func = "get_prayer_times" ->
            [params |-> <<"city", "date">>, defaults |-> {"city", "date"}]

\* parameters of each handler, and those that have a default value
Signature(func) ==
    CASE func = "get_weather_forecast" ->
            [params |-> <<"city", "country", "days">>, defaults |-> {"country", "days"}]
      [] func = "get_news" ->
            [params |-> <<"query", "language", "max_results">>,
             defaults |-> {"language", "max_results"}]
      [] func = "search_web" ->
            [params |-> <<"query", "count">>, defaults |-> {"count"}]
      [] func = "convert_currency" ->
            [params |-> <<"amount", "from_currency", "to_currency">>, defaults |-> {}]
      [] func = "calculate" ->
            [params |-> <<"expression">>, defaults |-> {}]
      [] func = "get_prayer_times" ->
            [params |-> <<"city", "date">>, defaults |-> {"city", "date"}]

\* the six @server.tool(...) decorations, in module order
Catalogue ==
    << [name |-> "get_weather_forecast", description |-> "Previsions meteo",
        parameters |-> [properties |-> {"city", "country", "days"},
                        required |-> <<"city">>],
        func |-> "get_weather_forecast"],
       [name |-> "get_news", description |-> "Actualites",
        parameters |-> [properties |-> {"query", "language", "max_results"},
                        required |-> <<"query">>],
        func |-> "get_news"],
       [name |-> "search_web", description |-> "Recherche web",
        parameters |-> [properties |-> {"query", "count"},
                        required |-> <<"query">>],
        func |-> "search_web"],
       [name |-> "convert_currency", description |-> "Conversion devises",
        parameters |-> [properties |-> {"amount", "from_currency", "to_currency"},
                        required |-> <<"amount", "from_currency", "to_currency">>],
        func |-> "convert_currency"],
       [name |-> "calculate", description |-> "Calculatrice",
        parameters |-> [properties |-> {"expression"},
                        required |-> <<"expression">>],
        func |-> "calculate"],
       [name |-> "get_prayer_times", description |-> "Horaires de priere",
        parameters |-> [properties |-> {"city", "date"},
                        required |-> <<>>],
        func |-> "get_prayer_times"] >>

ToolNames == {Catalogue[i].name : i \in 1..Len(Catalogue)}

Range(s) == {s[i] : i \in 1..Len(s)}

(* ----------------------------- the registry --------------------------- *)

\* position of name among the keys of the dict, 0 when it is not a key
IndexOf(registry, name) ==
    IF \E i \in 1..Len(registry) : registry[i].name = name
    THEN CHOOSE i \in 1..Len(registry) : registry[i].name = name
    ELSE 0

\* the value stored by self.tools[name] = {...}
ToolEntry(d) ==
    [name |-> d.name,
     description |-> d.description,
     inputSchema |-> [type |-> "object",
                      properties |-> d.parameters.properties,
                      required |-> d.parameters.required],
     handler |-> d.func]

\* faulty variant: an existing key is deleted and inserted again, which moves it last
DictSetMovesLast(registry, entry) ==
    Append(SelectSeq(registry, LAMBDA e : e.name # entry.name), entry)

\* self.tools[name] = entry on an insertion-ordered dict: an existing key keeps
\* its position and takes the new value, a new key goes last
DictSet(registry, entry) ==
    IF IndexOf(registry, entry.name) = 0
    THEN Append(registry, entry)
    ELSE [registry EXCEPT ![IndexOf(registry, entry.name)] = entry]

(* ------------------------------- state -------------------------------- *)

VARIABLES
    server,     \* name, description, version of the MCPServer object
    tools,      \* self.tools: the insertion-ordered dict, as the sequence of its values
    phase,      \* "startup" while the module body runs, "serving" after server.run
    history,    \* the MCPServer.tool calls made so far, in order
    pc,         \* per request thread: "idle", "calling" (inside the collaborator), "done"
    req,        \* per thread: the HTTP request it is serving
    frame,      \* per thread: the locals request_id, tool_name, arguments
    executed,   \* per thread: whether the collaborator function was entered
    resp        \* per thread: the HTTP response it produced

vars == <<server, tools, phase, history, pc, req, frame, executed, resp>>

Threads == 1..NumThreads

NoRequest == [route |-> "none"]
NoFrame ==
    [request_id |-> PyNone, tool_name |-> PyNone, arguments |-> PyNone,
     handler |-> "", outcome |-> [t |-> "none"]]
NoResponse == [status |-> 0]

(* --------------------------- HTTP responses --------------------------- *)

\* jsonify(payload), with the HTTP status Flask gives it
JsonResponse(status, payload) == [status |-> status, json |-> payload]

\* what Flask answers when an exception leaves the view function
ServerError(exc) == [status |-> 500, html |-> "Internal Server Error", exception |-> exc]

\* what Flask answers when the view function aborts with an HTTPException
HttpError(status) == [status |-> status, html |-> "HTTPException"]

\* an error message: its text and the identifiers it quotes
Msg(text, names) == [text |-> text, names |-> names]

ResultEnvelope(request_id, result) ==
    [jsonrpc |-> "2.0", id |-> request_id, result |-> result]

ErrorEnvelope(request_id, code, message) ==
    [jsonrpc |-> "2.0", id |-> request_id, error |-> [code |-> code, message |-> message]]

ParseErrorResponse ==
    JsonResponse(400, ErrorEnvelope(PyNone, -32700, Msg("Parse error", <<>>)))

InitializeResponse(srv, request_id) ==
    JsonResponse(200, ResultEnvelope(request_id,
        [protocolVersion |-> "2024-11-05",
         serverInfo |-> [name |-> srv.name, version |-> srv.version],
         capabilities |-> [tools |-> [listChanged |-> FALSE]]]))

\* the list comprehension over self.tools.values() of tools/list
ToolsList(registry) ==
    [i \in 1..Len(registry) |->
        [name |-> registry[i].name,
         description |-> registry[i].description,
         inputSchema |-> registry[i].inputSchema]]

ToolsListResponse(registry, request_id) ==
    JsonResponse(200, ResultEnvelope(request_id, [tools |-> ToolsList(registry)]))

ToolNotFoundResponse(request_id, tool_name) ==
    JsonResponse(200, ErrorEnvelope(request_id, -32601,
        Msg("Tool not found: " \o Format(tool_name), <<>>)))

\* faulty variant: the unknown-method branch answers with a null id
MethodNotFoundNullId(request_id, method) ==
    JsonResponse(200, ErrorEnvelope(PyNone, -32601,
        Msg("Method not found: " \o Format(method), <<>>)))

MethodNotFoundResponse(request_id, method) ==
    JsonResponse(200, ErrorEnvelope(request_id, -32601,
        Msg("Method not found: " \o Format(method), <<>>)))

ToolResultResponse(request_id, text) ==
    JsonResponse(200, ResultEnvelope(request_id,
        [content |-> <<[type |-> "text", text |-> text]>>]))

ToolErrorResponse(request_id, message) ==
    JsonResponse(200, ErrorEnvelope(request_id, -32603, message))

(* ------------------------- request.get_json() ------------------------- *)

\* The outcomes of request.get_json() on a body.  Without a JSON body the
\* installed Flask either returns None or aborts (415 or 400, by version);
\* malformed JSON aborts with 400; a JSON document is returned as parsed.
GetJson(body) ==
    CASE body.kind = "absent" ->
            {[t |-> "return", value |-> PyNone],
             [t |-> "HTTPException", status |-> 415],
             [t |-> "HTTPException", status |-> 400]}
      [] body.kind = "invalid" -> {[t |-> "HTTPException", status |-> 400]}
      [] OTHER -> {[t |-> "return", value |-> body.data]}

(* ----------------------- binding of the handler call ----------------- *)

\* the parameters of func that have no default and that keys does not supply
MissingParams(func, keys) ==
    SelectSeq(Signature(func).params,
              LAMBDA p : p \notin Signature(func).defaults /\ p \notin keys)

\* the keys that are no parameter of func
UnexpectedKeys(func, keys) == keys \ Range(Signature(func).params)

\* faulty variant: the handlers take **kwargs, so that no keyword is unexpected
BindTakesKwargs(func, arguments) ==
    IF arguments.t # "dict"
    THEN Msg(func \o "() argument after ** must be a mapping, not " \o arguments.t, <<>>)
    ELSE IF MissingParams(func, arguments.keys) # <<>>
    THEN Msg(func \o "() missing required positional arguments",
             MissingParams(func, arguments.keys))
    ELSE Msg("ok", <<>>)

\* The TypeError Python raises when the call of the handler with **arguments cannot be bound, or
\* "ok" when the call enters the function.  An unexpected keyword is reported
\* before a missing parameter.
Bind(func, arguments) ==
    IF arguments.t # "dict"
    THEN Msg(func \o "() argument after ** must be a mapping, not " \o arguments.t, <<>>)
    ELSE IF UnexpectedKeys(func, arguments.keys) # {}
    THEN Msg(func \o "() got an unexpected keyword argument",
             <<CHOOSE k \in UnexpectedKeys(func, arguments.keys) : TRUE>>)
    ELSE IF MissingParams(func, arguments.keys) # <<>>
    THEN Msg(func \o "() missing required positional arguments",
             MissingParams(func, arguments.keys))
    ELSE Msg("ok", <<>>)

BindOk == Msg("ok", <<>>)

(* ---------------------------- collaborators --------------------------- *)

\* What the tool module behind func may do once entered: return a value
\* (a payload, or a value that describes an error), return a value that
\* json.dumps cannot serialize, or raise.
CollaboratorOutcomes(func) ==
    {[t |-> "return", value |-> [success |-> TRUE, data |-> func]],
     [t |-> "return", value |-> [success |-> FALSE, error |-> func \o " failed"]],
     [t |-> "return", value |-> [circular |-> TRUE]],
     [t |-> "raise", message |-> Msg(func \o " raised", <<>>)]}

\* whether json.dumps(value, ensure_ascii=False, default=str) raises
DumpsRaises(value) == "circular" \in DOMAIN value

\* json.dumps(value, ensure_ascii=False, default=str)
Dumps(value) ==
    IF value.success
    THEN "{\"success\": true, \"data\": \"" \o value.data \o "\"}"
    ELSE "{\"success\": false, \"error\": \"" \o value.error \o "\"}"

\* faulty variant: the except branch wraps the failure as a text result
AfterCallSwallows(request_id, outcome) ==
    IF outcome.t = "raise"
    THEN ToolResultResponse(request_id, outcome.message.text)
    ELSE IF DumpsRaises(outcome.value)
    THEN ToolErrorResponse(request_id, Msg("Circular reference detected", <<>>))
    ELSE ToolResultResponse(request_id, Dumps(outcome.value))

\* lines 137-151: the response once the collaborator has returned or raised
AfterCall(request_id, outcome) ==
    IF outcome.t = "raise"
    THEN ToolErrorResponse(request_id, outcome.message)
    ELSE IF DumpsRaises(outcome.value)
    THEN ToolErrorResponse(request_id, Msg("Circular reference detected", <<>>))
    ELSE ToolResultResponse(request_id, Dumps(outcome.value))

(* ------------------------------ dispatch ------------------------------ *)

RequestId(data) == Get(data, "id", PyNone)
Method(data) == Get(data, "method", PyStr(""))
Params(data) == Get(data, "params", PyParams(Absent, Absent))
ToolName(params) == Get(params, "name", PyNone)
Arguments(params) == Get(params, "arguments", PyKwargs({}))

\* `tool_name in self.tools`, for a hashable tool_name
Registered(registry, tool_name) ==
    tool_name.t = "str" /\ IndexOf(registry, tool_name.s) # 0

HandlerOf(registry, tool_name) == registry[IndexOf(registry, tool_name.s)].handler

\* the tools/call branch up to the call of the handler: a response, or "call"
\* when the handler is entered
RouteToolsCall(registry, request_id, params) ==
    IF params.t # "dict"
    THEN ServerError("AttributeError")
    ELSE IF ~Hashable(ToolName(params))
    THEN ServerError("TypeError")
    ELSE IF ~Registered(registry, ToolName(params))
    THEN ToolNotFoundResponse(request_id, ToolName(params))
    ELSE IF Bind(HandlerOf(registry, ToolName(params)), Arguments(params)) # BindOk
    THEN ToolErrorResponse(request_id,
             Bind(HandlerOf(registry, ToolName(params)), Arguments(params)))
    ELSE [status |-> 0, call |-> HandlerOf(registry, ToolName(params))]

\* _handle_mcp_request on the outcome j of request.get_json()
Dispatch(srv, registry, j) ==
    IF j.t = "HTTPException"
    THEN HttpError(j.status)
    ELSE IF ~Truthy(j.value)
    THEN ParseErrorResponse
    ELSE IF j.value.t # "dict"
    THEN ServerError("AttributeError")
    ELSE IF Method(j.value) = PyStr("initialize")
    THEN InitializeResponse(srv, RequestId(j.value))
    ELSE IF Method(j.value) = PyStr("tools/list")
    THEN ToolsListResponse(registry, RequestId(j.value))
    ELSE IF Method(j.value) = PyStr("tools/call")
    THEN RouteToolsCall(registry, RequestId(j.value), Params(j.value))
    ELSE MethodNotFoundResponse(RequestId(j.value), Method(j.value))

(* ------------------------------- inputs ------------------------------- *)

\* a key that no tool declares
Extra == "extra"

\* alternative declarations, used to register a name a second time
Redefinition(d) ==
    [name |-> d.name, description |-> d.description \o " (bis)",
     parameters |-> [properties |-> {}, required |-> <<>>],
     func |-> "get_prayer_times"]

Definitions == Range(Catalogue) \cup {Redefinition(d) : d \in Range(Catalogue)}

\* the ids offered: none, null, and the numbers 1..MaxId
Ids == {Absent, PyNone} \cup {PyInt(i) : i \in 1..MaxId}

\* the ids offered while several threads overlap
ConcIds == {Absent} \cup {PyInt(i) : i \in 1..MaxId}

NameValues == {Absent, PyStr("unknown_tool"), PyList(1)} \cup {PyStr(n) : n \in ToolNames}

\* the arguments offered with a name: absent, null, an array, and every
\* mapping whose keys are declared properties of the tool or the extra key
ArgumentValues(name) ==
    {Absent, PyNone, PyList(1)} \cup
    {PyKwargs(keys) : keys \in SUBSET (
        IF name.t = "str" /\ name.s \in ToolNames
        THEN Catalogue[IndexOf(Catalogue, name.s)].parameters.properties \cup {Extra}
        ELSE {Extra})}

ParamValues(method) ==
    IF method = PyStr("tools/call")
    THEN {Absent, PyNone, PyList(0)} \cup
         UNION {{PyParams(n, a) : a \in ArgumentValues(n)} : n \in NameValues}
    ELSE {Absent, PyNone}

Methods ==
    {Absent, PyNone, PyStr("initialize"), PyStr("tools/list"), PyStr("tools/call"),
     PyStr("frobnicate")}

Json(data) == [kind |-> "json", data |-> data]

\* the JSON documents POSTed to /mcp: values that are not objects, the empty
\* object, and request objects
JsonBodies ==
    {Json(PyNone), Json(PyList(0)), Json(PyList(1)),
     Json(PyRequest(Absent, Absent, Absent, Absent))}
    \cup UNION {{Json(PyRequest(PyStr("2.0"), id, m, p)) :
                    id \in Ids, p \in ParamValues(m)} : m \in Methods}

\* a POST without a JSON body, and one whose body is malformed JSON
RawBodies == {[kind |-> "absent"], [kind |-> "invalid"]}

Bodies == JsonBodies \cup RawBodies

\* the requests offered while several threads overlap
ConcBodies ==
    {Json(PyList(1))}
    \cup {Json(PyRequest(PyStr("2.0"), id, m, Absent)) :
            id \in ConcIds, m \in {PyStr("initialize"), PyStr("tools/list")}}
    \cup {Json(PyRequest(PyStr("2.0"), id, PyStr("tools/call"), PyParams(PyStr(n), a))) :
            id \in ConcIds, n \in {"calculate", "unknown_tool"},
            a \in {PyKwargs({"expression"})}}

\* the requests offered after an arbitrary startup
RegistryBodies ==
    {Json(PyRequest(PyStr("2.0"), PyInt(1), m, Absent)) :
        m \in {PyStr("initialize"), PyStr("tools/list")}}
    \cup {Json(PyRequest(PyStr("2.0"), PyInt(1), PyStr("tools/call"),
                         PyParams(PyStr("calculate"), PyKwargs({"expression"}))))}

(* ------------------------------- startup ------------------------------ *)

Init ==
    /\ server = [name |-> "info-agent",
                 description |-> "Agent d'information",
                 version |-> "2.0.0"]
    /\ tools = <<>>
    /\ phase = "startup"
    /\ history = <<>>
    /\ pc = [t \in Threads |-> "idle"]
    /\ req = [t \in Threads |-> NoRequest]
    /\ frame = [t \in Threads |-> NoFrame]
    /\ executed = [t \in Threads |-> FALSE]
    /\ resp = [t \in Threads |-> NoResponse]

\* faulty variant: a name that is already registered keeps its first registration
RegisterToolKeepsFirst(registry, d) ==
    IF IndexOf(registry, d.name) = 0 THEN DictSet(registry, ToolEntry(d)) ELSE registry

\* the registry after MCPServer.tool(name, description, parameters)(func)
RegisterTool(registry, d) == DictSet(registry, ToolEntry(d))

\* one @server.tool(...) decoration
Tool(d) ==
    /\ phase = "startup"
    /\ tools' = RegisterTool(tools, d)
    /\ history' = Append(history, d)
    /\ UNCHANGED <<server, phase, pc, req, frame, executed, resp>>

\* the module body: the next of the six decorations
LoadModule ==
    /\ Len(history) < Len(Catalogue)
    /\ Tool(Catalogue[Len(history) + 1])

\* a startup that registers any declaration under any of the names
RegisterAny ==
    /\ Len(history) < MaxRegs
    /\ \E d \in Definitions : Tool(d)

\* server.run
Run ==
    /\ phase = "startup"
    /\ phase' = "serving"
    /\ UNCHANGED <<server, tools, history, pc, req, frame, executed, resp>>

\* server.run at the end of the module body
RunMain ==
    /\ history = Catalogue
    /\ Run

(* ------------------------------- serving ------------------------------ *)

\* POST /mcp: _handle_mcp_request up to its response, or up to the entry
\* into the collaborator
HandleMcp(t, body) ==
    /\ phase = "serving"
    /\ pc[t] = "idle"
    /\ req' = [req EXCEPT ![t] = [route |-> "/mcp", body |-> body]]
    /\ \E j \in GetJson(body) :
        LET r == Dispatch(server, tools, j) IN
        IF "call" \in DOMAIN r
        THEN /\ pc' = [pc EXCEPT ![t] = "calling"]
             /\ frame' = [frame EXCEPT ![t] =
                    [request_id |-> RequestId(j.value),
                     tool_name |-> ToolName(Params(j.value)),
                     arguments |-> Arguments(Params(j.value)),
                     handler |-> r.call,
                     outcome |-> [t |-> "none"]]]
             /\ executed' = [executed EXCEPT ![t] = TRUE]
             /\ UNCHANGED resp
        ELSE /\ pc' = [pc EXCEPT ![t] = "done"]
             /\ resp' = [resp EXCEPT ![t] = r]
             /\ UNCHANGED <<frame, executed>>
    /\ UNCHANGED <<server, tools, phase, history>>

\* faulty variant: request_id is kept on the server object, where the request that
\* entered a collaborator first and has not yet answered overwrites it
SharedRequestId(frames, t) ==
    frames[CHOOSE u \in Threads :
              /\ pc[u] = "calling"
              /\ \A v \in Threads : pc[v] = "calling" => u <= v].request_id

\* the local variable request_id of the thread
LocalRequestId(frames, t) == frames[t].request_id

\* the collaborator returns or raises, and lines 139-151 build the response
CollaboratorReturns(t) ==
    /\ pc[t] = "calling"
    /\ \E o \in CollaboratorOutcomes(frame[t].handler) :
        /\ frame' = [frame EXCEPT ![t].outcome = o]
        /\ resp' = [resp EXCEPT ![t] = AfterCall(LocalRequestId(frame, t), o)]
    /\ pc' = [pc EXCEPT ![t] = "done"]
    /\ UNCHANGED <<server, tools, phase, history, req, executed>>

HealthResponse(srv, registry) ==
    JsonResponse(200, [status |-> "ok", server |-> srv.name, version |-> srv.version,
                       tools_count |-> Len(registry)])

ListToolsResponse(registry) ==
    JsonResponse(200,
        [tools |-> [i \in 1..Len(registry) |->
                        [name |-> registry[i].name,
                         description |-> registry[i].description]],
         count |-> Len(registry)])

IndexResponse(srv, registry) ==
    JsonResponse(200,
        [name |-> srv.name, description |-> srv.description, version |-> srv.version,
         endpoints |-> [mcp |-> "/mcp (POST)", health |-> "/health", tools |-> "/tools"],
         tools_count |-> Len(registry)])

\* GET /health, GET /tools, GET /
HandleGet(t, route) ==
    /\ phase = "serving"
    /\ pc[t] = "idle"
    /\ req' = [req EXCEPT ![t] = [route |-> route]]
    /\ resp' = [resp EXCEPT ![t] =
            CASE route = "/health" -> HealthResponse(server, tools)
              [] route = "/tools" -> ListToolsResponse(tools)
              [] OTHER -> IndexResponse(server, tools)]
    /\ pc' = [pc EXCEPT ![t] = "done"]
    /\ UNCHANGED <<server, tools, phase, history, frame, executed>>

\* the response is written and the thread ends
Send(t) ==
    /\ pc[t] = "done"
    /\ pc' = [pc EXCEPT ![t] = "idle"]
    /\ req' = [req EXCEPT ![t] = NoRequest]
    /\ frame' = [frame EXCEPT ![t] = NoFrame]
    /\ executed' = [executed EXCEPT ![t] = FALSE]
    /\ resp' = [resp EXCEPT ![t] = NoResponse]
    /\ UNCHANGED <<server, tools, phase, history>>

OthersIdle(t) == \A u \in Threads \ {t} : pc[u] = "idle"

GetRoutes == {"/health", "/tools", "/"}

\* one request at a time, over every body
SerialMcp ==
    \E t \in Threads :
        /\ OthersIdle(t)
        /\ \/ \E body \in JsonBodies : HandleMcp(t, body)
           \/ \E body \in RawBodies : HandleMcp(t, body)
SerialGet == \E t \in Threads : OthersIdle(t) /\ \E route \in GetRoutes : HandleGet(t, route)
\* overlapping requests
OverlapMcp == \E t \in Threads : \E body \in ConcBodies : HandleMcp(t, body)
OverlapGet == \E t \in Threads : HandleGet(t, "/health")
\* requests after an arbitrary startup
RegistryMcp == \E t \in Threads : OthersIdle(t) /\ \E body \in RegistryBodies : HandleMcp(t, body)
Returns == \E t \in Threads : CollaboratorReturns(t)
Sends == \E t \in Threads : Send(t)

Next == LoadModule \/ RunMain \/ SerialMcp \/ SerialGet \/ Returns \/ Sends
Spec == Init /\ [][Next]_vars

NextConc == LoadModule \/ RunMain \/ OverlapMcp \/ OverlapGet \/ Returns \/ Sends
SpecConc == Init /\ [][NextConc]_vars

NextRegistry == RegisterAny \/ Run \/ RegistryMcp \/ SerialGet \/ Returns \/ Sends
SpecRegistry == Init /\ [][NextRegistry]_vars

(* ------------------------ vocabulary of the claims -------------------- *)

\* thread t has finished a POST /mcp
McpDone(t) == pc[t] = "done" /\ req[t].route = "/mcp"

\* the JSON document of the request of t, when it has one
DataOf(t) == req[t].body.data

\* the request of t passed the parse step
Parsed(t) == McpDone(t) /\ req[t].body.kind = "json" /\ Truthy(DataOf(t))

\* the request of t is a JSON object
IsObject(t) == Parsed(t) /\ DataOf(t).t = "dict"

\* the response of t is a JSON-RPC envelope
IsEnvelope(r) == "json" \in DOMAIN r /\ "jsonrpc" \in DOMAIN r.json
HasResult(r) == IsEnvelope(r) /\ "result" \in DOMAIN r.json
HasError(r) == IsEnvelope(r) /\ "error" \in DOMAIN r.json
ErrorCode(r) == IF HasError(r) THEN r.json.error.code ELSE 0

\* the id the request carries, null when it carries none
IdOf(data) == IF data.id = Absent THEN PyNone ELSE data.id

\* the method and params the request carries
MethodIs(t, m) == IsObject(t) /\ DataOf(t).method = PyStr(m)
KnownMethod(t) == MethodIs(t, "initialize") \/ MethodIs(t, "tools/list") \/ MethodIs(t, "tools/call")
ParamsObject(t) == DataOf(t).params = Absent \/ DataOf(t).params.t = "dict"
NameOf(t) == IF DataOf(t).params = Absent THEN Absent ELSE DataOf(t).params.name
ArgsOf(t) == IF DataOf(t).params = Absent THEN Absent ELSE DataOf(t).params.arguments
RegisteredNames == {tools[i].name : i \in 1..Len(tools)}
NamesRegistered(t) == NameOf(t).t = "str" /\ NameOf(t).s \in RegisteredNames

\* t served a tools/call that names a registered tool
CallsRegistered(t) == MethodIs(t, "tools/call") /\ ParamsObject(t) /\ NamesRegistered(t)
EntryOf(t) == tools[IndexOf(tools, NameOf(t).s)]

\* the keys of the arguments mapping of t, the empty mapping when arguments is absent
IsMapping(t) == ArgsOf(t) = Absent \/ ArgsOf(t).t = "dict"
KeysOf(t) == IF ArgsOf(t) = Absent THEN {} ELSE ArgsOf(t).keys
MissingRequired(t) == Range(EntryOf(t).inputSchema.required) \ KeysOf(t)
UndeclaredKeys(t) == KeysOf(t) \ EntryOf(t).inputSchema.properties

(* -------------------------------- C1 ---------------------------------- *)

\* C1: every request handed to POST /mcp, whatever its body, ends in a JSON-RPC
\* envelope carrying result or error; none ends in an exception that leaves
\* the dispatcher.
C1_EveryRequestEndsInEnvelope ==
    \A t \in Threads :
        McpDone(t) => IsEnvelope(resp[t]) /\ (HasResult(resp[t]) \/ HasError(resp[t]))

(* -------------------------------- C2 ---------------------------------- *)

\* the body of t is structured data: a JSON array or object
Structured(t) == req[t].body.kind = "json" /\ DataOf(t).t \in {"list", "dict"}

\* C2: the answer is the parse error (-32700, id null, HTTP 400) when the body
\* is absent or is not valid structured data, and in no other case: every body
\* that is valid structured data, the empty object included, is answered with
\* HTTP 200 and is not reported as a parse error.
C2_ParseErrorOnlyForBadBody ==
    \A t \in Threads :
        McpDone(t) =>
            IF Structured(t)
            THEN resp[t].status = 200 /\ ErrorCode(resp[t]) # -32700
            ELSE resp[t] = ParseErrorResponse

(* -------------------------------- C3 ---------------------------------- *)

\* the two cases in which C3 expects -32601
ToolNotFoundCase(t) ==
    MethodIs(t, "tools/call") /\ ParamsObject(t) /\ ~NamesRegistered(t)
MethodNotFoundCase(t) == IsObject(t) /\ ~KnownMethod(t)

\* C3: a parsed request object is answered with -32601 exactly when it is a
\* tools/call whose name is not registered (whatever its arguments, and
\* without any collaborator being executed) or its method is none of
\* initialize, tools/list, tools/call.
C3_NotFoundExactly ==
    \A t \in Threads :
        IsObject(t) =>
            /\ (ErrorCode(resp[t]) = -32601) <=> (ToolNotFoundCase(t) \/ MethodNotFoundCase(t))
            /\ ToolNotFoundCase(t) => ~executed[t]

(* -------------------------------- C4 ---------------------------------- *)

Returned(t) == CallsRegistered(t) /\ executed[t]
OutcomeOf(t) == frame[t].outcome

\* the collaborator failed: it raised, or it returned a value that describes an error
CollaboratorFailed(t) ==
    \/ OutcomeOf(t).t = "raise"
    \/ OutcomeOf(t).t = "return" /\ "success" \in DOMAIN OutcomeOf(t).value
                                 /\ ~OutcomeOf(t).value.success

\* the response is the -32603 error carrying message, without a result
IsToolError(r, message) ==
    /\ HasError(r) /\ ~HasResult(r)
    /\ r.json.error.code = -32603
    /\ r.json.error.message = message

\* the response is a result whose content is exactly one text entry holding text
IsToolResult(r, text) ==
    /\ HasResult(r) /\ ~HasError(r)
    /\ Len(r.json.result.content) = 1
    /\ r.json.result.content[1] = [type |-> "text", text |-> text]

\* C5 as stated: for a tools/call naming a registered tool, the response is the
\* -32603 error with the failure's message and no result whenever the
\* collaborator fails, by raising or by returning an error value; it is a
\* one-entry text result only when the collaborator succeeded.
C5_FailureIsError ==
    \A t \in Threads :
        Returned(t) =>
            /\ CollaboratorFailed(t) => ErrorCode(resp[t]) = -32603 /\ ~HasResult(resp[t])
            /\ HasResult(resp[t]) => ~CollaboratorFailed(t)

\* C5 as amended: the response is the -32603 error with the exception's message
\* and no result whenever the call of the handler raises (the binding of the
\* arguments, the collaborator, or the serialization of its return value); every
\* value the collaborator returns and json.dumps serializes, a value describing
\* an error included, is answered with a one-entry text result.
C5_RaiseIsError ==
    \A t \in Threads :
        (McpDone(t) /\ CallsRegistered(t)) =>
            IF ~executed[t]
            THEN ErrorCode(resp[t]) = -32603 /\ ~HasResult(resp[t])
            ELSE IF OutcomeOf(t).t = "raise"
            THEN IsToolError(resp[t], OutcomeOf(t).message)
            ELSE IF "circular" \in DOMAIN OutcomeOf(t).value
            THEN ErrorCode(resp[t]) = -32603 /\ ~HasResult(resp[t])
            ELSE IsToolResult(resp[t], Dumps(OutcomeOf(t).value))

\* a collaborator returned a value describing an error and the answer is a result
C5_Witness ==
    \E t \in Threads :
        /\ Returned(t) /\ pc[t] = "done"
        /\ OutcomeOf(t).t = "return"
        /\ "success" \in DOMAIN OutcomeOf(t).value
        /\ ~OutcomeOf(t).value.success
        /\ HasResult(resp[t])

(* -------------------------------- C6 ---------------------------------- *)

\* the first and the last declaration registered under name
FirstDef(h, name) == h[CHOOSE i \in 1..Len(h) : h[i].name = name /\ \A j \in 1..(i - 1) : h[j].name # name]
LastDef(h, name) == h[CHOOSE i \in 1..Len(h) : h[i].name = name /\ \A j \in (i + 1)..Len(h) : h[j].name # name]

\* the names of h in the order of their first registration
RECURSIVE FirstNames(_, _)
FirstNames(h, n) ==
    IF n = 0 THEN <<>>
    ELSE IF h[n].name \in Range(FirstNames(h, n - 1))
         THEN FirstNames(h, n - 1)
         ELSE Append(FirstNames(h, n - 1), h[n].name)

\* C6 as stated: registering under a name already in the registry leaves the
\* registry unchanged: what is stored under each name is the first registration.
C6_FirstRegistrationKept ==
    \A i \in 1..Len(tools) : tools[i] = ToolEntry(FirstDef(history, tools[i].name))

\* C6 as amended: registering under a name already in the registry does not
\* fail; it replaces the definition, schema and handler stored under that name
\* by those of the latest registration, and the registry still holds exactly
\* one entry per registered name.
C6_LastRegistrationWins ==
    /\ \A i \in 1..Len(tools) : tools[i] = ToolEntry(LastDef(history, tools[i].name))
    /\ RegisteredNames = {history[i].name : i \in 1..Len(history)}
    /\ Cardinality(RegisteredNames) = Len(tools)
    /\ phase = "startup" => \A d \in Definitions : ENABLED Tool(d)

\* a name was registered twice with different declarations
C6_Witness ==
    \E i \in 1..Len(tools) :
        /\ FirstDef(history, tools[i].name) # LastDef(history, tools[i].name)
        /\ tools[i] = ToolEntry(LastDef(history, tools[i].name))
        /\ tools[i] # ToolEntry(FirstDef(history, tools[i].name))

(* -------------------------------- C7 ---------------------------------- *)

\* the listing C7 expects: one entry per name, in the order of registration
ExpectedListing ==
    [i \in 1..Len(FirstNames(history, Len(history))) |->
        LET d == LastDef(history, FirstNames(history, Len(history))[i]) IN
        [name |-> d.name, description |-> d.description,
         inputSchema |-> [type |-> "object", properties |-> d.parameters.properties,
                          required |-> d.parameters.required]]]

C7_Listing ==
    \A t \in Threads :
        /\ (MethodIs(t, "tools/list") /\ pc[t] = "done") =>
                HasResult(resp[t]) /\ resp[t].json.result.tools = ExpectedListing
        /\ (pc[t] = "done" /\ req[t].route = "/health") =>
                resp[t].json.tools_count = Len(ExpectedListing)
        /\ (pc[t] = "done" /\ req[t].route = "/tools") =>
                /\ resp[t].json.count = Len(ExpectedListing)
                /\ Len(resp[t].json.tools) = Len(ExpectedListing)

\* C7: after any registrations at startup and any requests, tools/list returns
\* exactly one entry (name, description, inputSchema) per registered name in
\* the order of registration, the same whatever requests were served before;
\* tools_count of /health and count of /tools are the length of that listing.
C7_ListingStable ==
    /\ []C7_Listing
    /\ [][phase = "serving" => tools' = tools /\ phase' = "serving"]_vars

\* tools/list was answered after a startup that registered a name twice
C7_Witness ==
    \E t \in Threads :
        /\ MethodIs(t, "tools/list") /\ pc[t] = "done"
        /\ Len(history) > Len(tools)
        /\ Len(resp[t].json.result.tools) >= 2

(* -------------------------------- C8 ---------------------------------- *)

\* what thread t holds
Local(t) == <<pc[t], req[t], frame[t], executed[t], resp[t]>>

\* the response of every finished request is the one its own body, the
\* registry and the outcome of its own collaborator call determine
C8_Determined ==
    \A t \in Threads :
        McpDone(t) =>
            \E j \in GetJson(req[t].body) :
                IF "call" \in DOMAIN Dispatch(server, tools, j)
                THEN /\ executed[t]
                     /\ resp[t] = AfterCall(IdOf(DataOf(t)), OutcomeOf(t))
                ELSE /\ ~executed[t]
                     /\ resp[t] = Dispatch(server, tools, j)

\* initialize always returns the same result
C8_InitializeFixed ==
    \A t \in Threads :
        (MethodIs(t, "initialize") /\ pc[t] = "done") =>
            /\ HasResult(resp[t])
            /\ resp[t].json.result =
                [protocolVersion |-> "2024-11-05",
                 serverInfo |-> [name |-> "info-agent", version |-> "2.0.0"],
                 capabilities |-> [tools |-> [listChanged |-> FALSE]]]

\* C8: under any interleaving of overlapping requests the response to each
\* request is determined by that request, the registry and the outcome of its
\* own collaborator call; no step of a request writes the registry, the server
\* object or what another request holds; initialize returns the same result
\* before, during and after any other request.
C8_RequestsIsolated ==
    /\ []C8_Determined
    /\ []C8_InitializeFixed
    /\ [][phase = "serving" =>
            /\ tools' = tools /\ server' = server
            /\ \A t, u \in Threads :
                    (t # u /\ Local(t)' # Local(t)) => Local(u)' = Local(u)]_vars

\* a request whose collaborator raised and a request that got a result, with
\* different ids, have both been answered and neither has been sent yet
C8_Witness ==
    \E t, u \in Threads :
        /\ t # u
        /\ Returned(t) /\ pc[t] = "done" /\ OutcomeOf(t).t = "raise"
        /\ ErrorCode(resp[t]) = -32603
        /\ Returned(u) /\ pc[u] = "done" /\ HasResult(resp[u])
        /\ resp[t].json.id # resp[u].json.id

(* -------------------------------- C9 ---------------------------------- *)

\* the parameters the handler cannot be called without
CannotOmit(func) == Range(Signature(func).params) \ Signature(func).defaults

\* each tool's declared required list is exactly what its handler cannot be
\* called without
RequiredExact ==
    \A i \in 1..Len(tools) :
        Range(tools[i].inputSchema.required) = CannotOmit(tools[i].handler)

\* t called a registered tool with a mapping that lacks a required key
LacksRequired(t) ==
    McpDone(t) /\ CallsRegistered(t) /\ IsMapping(t) /\ MissingRequired(t) # {}

\* the identifiers the error message of t quotes
NamedBy(t) == IF HasError(resp[t]) THEN Range(resp[t].json.error.message.names) ELSE {}

\* C9 as stated: a tools/call naming a registered tool whose arguments lack a
\* required key fails with an argument-binding error that names the missing
\* keys, and the collaborator is never executed; each tool's required list is
\* exactly the set of parameters its handler cannot be called without.
C9_MissingKeysNamed ==
    /\ RequiredExact
    /\ \A t \in Threads :
            LacksRequired(t) =>
                /\ HasError(resp[t]) /\ ~executed[t]
                /\ MissingRequired(t) \subseteq NamedBy(t)

\* C9 as amended: such a call fails with the -32603 error of Python's argument
\* binding and the collaborator is never executed; the message names the
\* missing keys when every key supplied is a declared property, and names an
\* undeclared key instead when one is supplied; arguments that are not a
\* mapping fail in the same way, naming no key; each of the six tools' required
\* list is exactly the set of parameters its handler cannot be called without.
C9_MissingKeysRejected ==
    /\ RequiredExact
    /\ phase = "serving" => Cardinality(RegisteredNames) = 6
    /\ \A t \in Threads :
            /\ LacksRequired(t) =>
                /\ ErrorCode(resp[t]) = -32603 /\ ~HasResult(resp[t]) /\ ~executed[t]
                /\ UndeclaredKeys(t) = {} => NamedBy(t) = MissingRequired(t)
                /\ UndeclaredKeys(t) # {} =>
                        NamedBy(t) # {} /\ NamedBy(t) \subseteq UndeclaredKeys(t)
            /\ (McpDone(t) /\ CallsRegistered(t) /\ ~IsMapping(t)) =>
                    ErrorCode(resp[t]) = -32603 /\ ~executed[t] /\ NamedBy(t) = {}

\* convert_currency was called with amount alone
C9_Witness ==
    \E t \in Threads :
        /\ LacksRequired(t)
        /\ NameOf(t) = PyStr("convert_currency")
        /\ KeysOf(t) = {"amount"}
        /\ NamedBy(t) = {"from_currency", "to_currency"}
        /\ ~executed[t]

(* -------------------------------- C10 --------------------------------- *)

\* t called a registered tool with every required key and an undeclared key
HasExtraKeys(t) ==
    /\ McpDone(t) /\ CallsRegistered(t) /\ IsMapping(t)
    /\ MissingRequired(t) = {} /\ UndeclaredKeys(t) # {}

\* C10 as stated: undeclared keys are tolerated: the call is not rejected
\* because of them and the collaborator is executed.
C10_ExtraKeysTolerated ==
    \A t \in Threads : HasExtraKeys(t) => executed[t]

\* C10 as amended: undeclared keys are not tolerated: the call is answered with
\* the -32603 error of Python's argument binding, whose message names an
\* undeclared key, and the collaborator is not executed.
C10_ExtraKeysRejected ==
    \A t \in Threads :
        HasExtraKeys(t) =>
            /\ ~executed[t]
            /\ ErrorCode(resp[t]) = -32603 /\ ~HasResult(resp[t])
            /\ NamedBy(t) # {} /\ NamedBy(t) \subseteq UndeclaredKeys(t)

\* get_weather_forecast was called with city and an undeclared key
C10_Witness ==
    \E t \in Threads :
        /\ HasExtraKeys(t)
        /\ NameOf(t) = PyStr("get_weather_forecast")
        /\ KeysOf(t) = {"city", Extra}
        /\ ErrorCode(resp[t]) = -32603

====
